---- MODULE Spec2Model ----
(***************************************************************************)
(* Solar calendar: the CalendarProcessor conversion engine.                *)
(*                                                                         *)
(* Fixed-28 class (src/calendar-processor.js): 13 months of 28 days, the   *)
(* year starting on the first Monday on or after the vernal equinox, with  *)
(* 'Year Day' (day 365) and 'Leap Day' (day 366) outside the months.       *)
(* Variable-layout class (src/unnamed/part_000, first class): 12 months of *)
(* 31/30/29-30 days starting on the equinox itself.                        *)
(*                                                                         *)
(* A JavaScript Date is modelled as an instant: an integer number of hours *)
(* since 1970-01-01T00:00Z.  The host's UTC offset is a whole number of    *)
(* hours; the local calendar fields of an instant t are the civil date of  *)
(* t + offset.                                                             *)
(***************************************************************************)
EXTENDS Integers, Sequences, FiniteSets, TLC

(***************************************************************************)
(* Bounds of the model.                                                    *)
(***************************************************************************)
\* conversions are queried for years within QuerySpan of either end of the
\* equinox table (one year outside it included)
QuerySpan == 2
\* host UTC offsets -MaxUtcOffset..MaxUtcOffset hours
MaxUtcOffset == 1
\* fetched equinox files: variants 0..MaxFileVariant
MaxFileVariant == 1
\* frames of getSolarDateFromGregorian the engine's stack holds before it
\* throws RangeError
MaxCallDepth == 2
\* the README variant is queried for the years within VariantSpan of either
\* end of its built-in table (one year outside it included)
VariantSpan == 4
\* the Gregorian page is shown for the years within PageSpan of the years
\* at which getSpringEquinox changes its rule
PageSpan == 2

(***************************************************************************)
(* Program constants.                                                      *)
(***************************************************************************)
FirstDataYear == 1899
LastDataYear == 2101
FirstCacheYear == 1900
LastCacheYear == 2100
FileFirstYear == 1
FileLastYear == 2100
totalDaysInMonths == 364
HoursPerDay == 24

DataYears == FirstDataYear..LastDataYear
AllYears == (FirstDataYear - 1)..(LastDataYear + 1)
QueryYears == ((FirstDataYear - 1)..(FirstDataYear - 1 + QuerySpan))
              \cup ((LastDataYear + 1 - QuerySpan)..(LastDataYear + 1))
UtcOffsets == (0 - MaxUtcOffset)..MaxUtcOffset

calendarStructure ==
  << [name |-> "March",     days |-> 28, startDay |-> 1],
     [name |-> "April",     days |-> 28, startDay |-> 29],
     [name |-> "May",       days |-> 28, startDay |-> 57],
     [name |-> "June",      days |-> 28, startDay |-> 85],
     [name |-> "July",      days |-> 28, startDay |-> 113],
     [name |-> "August",    days |-> 28, startDay |-> 141],
     [name |-> "September", days |-> 28, startDay |-> 169],
     [name |-> "October",   days |-> 28, startDay |-> 197],
     [name |-> "November",  days |-> 28, startDay |-> 225],
     [name |-> "December",  days |-> 28, startDay |-> 253],
     [name |-> "January",   days |-> 28, startDay |-> 281],
     [name |-> "February",  days |-> 28, startDay |-> 309],
     [name |-> "Sol",       days |-> 28, startDay |-> 337] >>

(***************************************************************************)
(* The JavaScript Date built-ins the code uses.                            *)
(***************************************************************************)
\* days since 1970-01-01 of the proleptic Gregorian date y-m-d (m in 1..12)
DaysFromCivil(y, m, d) ==
  LET yy  == IF m <= 2 THEN y - 1 ELSE y
      era == yy \div 400
      yoe == yy - era * 400
      mp  == IF m > 2 THEN m - 3 ELSE m + 9
      doy == (153 * mp + 2) \div 5 + d - 1
      doe == yoe * 365 + yoe \div 4 - yoe \div 100 + doy
  IN  era * 146097 + doe - 719468

\* the proleptic Gregorian date of day number z
CivilFromDays(z) ==
  LET zz  == z + 719468
      era == zz \div 146097
      doe == zz - era * 146097
      yoe == (doe - doe \div 1460 + doe \div 36524 - doe \div 146096) \div 365
      doy == doe - (365 * yoe + yoe \div 4 - yoe \div 100)
      mp  == (5 * doy + 2) \div 153
      d   == doy - (153 * mp + 2) \div 5 + 1
      m   == IF mp < 10 THEN mp + 3 ELSE mp - 9
      y   == yoe + era * 400 + (IF m <= 2 THEN 1 ELSE 0)
  IN  [year |-> y, month |-> m, day |-> d]

\* Date.UTC(year, monthIndex, day): monthIndex is 0-based, month and day
\* overflow are normalised (day 0 is the last day of the previous month)
DateUTC(y, m0, d) ==
  (DaysFromCivil(y + m0 \div 12, (m0 % 12) + 1, 1) + d - 1) * HoursPerDay

\* new Date(str + 'T00:00:00Z') for a 'YYYY-MM-DD' string <<y, m, d>>
ParseISODate(s) == DateUTC(s[1], s[2] - 1, s[3])

getUTCDay(t) == ((t \div HoursPerDay) + 4) % 7
getUTCDate(t) == CivilFromDays(t \div HoursPerDay).day
getUTCMonth(t) == CivilFromDays(t \div HoursPerDay).month - 1
getUTCFullYear(t) == CivilFromDays(t \div HoursPerDay).year

\* mutant: a day-of-month past 31 is clamped instead of carried
setUTCDate_clamped(t, n) ==
  LET c == CivilFromDays(t \div HoursPerDay)
  IN  DateUTC(c.year, c.month - 1, IF n > 31 THEN 31 ELSE n) + (t % HoursPerDay)

\* date.setUTCDate(n): same UTC month and time of day, day-of-month n,
\* normalised
setUTCDate(t, n) ==
  LET c == CivilFromDays(t \div HoursPerDay)
  IN  DateUTC(c.year, c.month - 1, n) + (t % HoursPerDay)

\* the local calendar fields of instant t on a host off hours ahead of UTC
getFullYear(t, off) == CivilFromDays((t + off) \div HoursPerDay).year
getMonth(t, off) == CivilFromDays((t + off) \div HoursPerDay).month - 1
getDate(t, off) == CivilFromDays((t + off) \div HoursPerDay).day
getDay(t, off) == (((t + off) \div HoursPerDay) + 4) % 7

\* Math.round(a / b) for a >= 0, b > 0
MathRound(a, b) == (2 * a + b) \div (2 * b)
\* Math.floor(a / b) for b > 0
MathFloor(a, b) == a \div b
MathAbs(a) == IF a < 0 THEN 0 - a ELSE a

isGregorianLeap(y) == (y % 4 = 0 /\ y % 100 # 0) \/ (y % 400 = 0)

\* new Date(year, m, 0).getDate(): the days of Gregorian month m (1..12)
daysInGregorianMonth(y, m) ==
  IF m = 2 THEN (IF isGregorianLeap(y) THEN 29 ELSE 28)
  ELSE IF m \in {4, 6, 9, 11} THEN 30 ELSE 31

(***************************************************************************)
(* Values.                                                                 *)
(***************************************************************************)
\* a Date result, or null
NullDate == [null |-> TRUE, t |-> 0]
SomeDate(t) == [null |-> FALSE, t |-> t]
\* a property lookup on an object: the keys present are the DOMAIN
Has(obj, key) == key \in DOMAIN obj
EmptyObject == [k \in {} |-> 0]

VARIABLES
  vernalEquinoxData,        \* year -> <<y, m, d>>, the 'YYYY-MM-DD' string
  solarYearStartDateCache,  \* year -> instant of the year's first day
  loadState,                \* "idle", "pending", "done"
  utcOffset,                \* the host's UTC offset in hours
  call,                     \* the call in hand: operation, arguments, result
  astronomicalEventCache,   \* year -> the events object of the year
  \* the variable-layout CalendarProcessor
  vlVernalEquinoxData,      \* year -> <<y, m, d>>
  vlLoadState,              \* "idle", "pending", "done"
  vlCall,                   \* the call in hand
  \* the README variant of CalendarProcessor (built-in equinox table)
  rvCall,                   \* the call in hand
  \* the Gregorian page (gregorian-calendar.html)
  pgCall,                   \* the call in hand
  \* the solar page (solar-calendar.html)
  spCall,                   \* the month cell buildCalendar has written
  \* the PHP endpoint
  phpCall                   \* the call in hand

fixedVars ==
  <<vernalEquinoxData, solarYearStartDateCache, loadState, call,
    astronomicalEventCache>>
vlVars == <<vlVernalEquinoxData, vlLoadState, vlCall>>
vars == <<fixedVars, utcOffset, vlVars, rvCall, pgCall, spCall, phpCall>>

NoCall == [op |-> "none"]

(***************************************************************************)
(* loadVernalEquinoxData and its helpers.                                  *)
(***************************************************************************)
\* the March day of the fallback table
FallbackDay(year) ==
  IF year = 2100 THEN 19
  ELSE IF (year >= 2044 /\ year % 4 = 0 /\ (year % 100 # 0 \/ year % 400 = 0))
          \/ year = 2100
       THEN 19 ELSE 20

\* mutant: the two end years of the range are left out
useFallbackEquinoxData_noEndYears(v) ==
  [year \in (DOMAIN v) \cup ((FirstDataYear + 1)..(LastDataYear - 1)) |->
     IF year \in (FirstDataYear + 1)..(LastDataYear - 1)
     THEN <<year, 3, FallbackDay(year)>> ELSE v[year]]

useFallbackEquinoxData(v) ==
  [year \in (DOMAIN v) \cup DataYears |->
     IF year \in DataYears THEN <<year, 3, FallbackDay(year)>> ELSE v[year]]

\* The fetched file spring_equinox_dates_0001_to_2100.json, one record
\* {year, date} per year.  The file is an input; variant k puts every
\* equinox on March 21 - k, so consecutive equinoxes are 365 or 366 days
\* apart as astronomical equinoxes are.
EquinoxFile(k) ==
  [year \in FileFirstYear..FileLastYear |-> <<year, 3, 21 - k>>]

\* data.reduce(...): keeps the entries of 1899..2101, keyed by year
ReduceFile(data) ==
  [year \in {y \in DOMAIN data : y >= FirstDataYear /\ y <= LastDataYear} |->
     <<year, data[year][2], data[year][3]>>]

\* a statement `const x = e; ...`: e is evaluated once, then the rest with x
With(e, rest(_)) == CHOOSE r \in {rest(x) : x \in {e}} : TRUE

\* mutant: lands on the Sunday
daysToMonday_toSunday(dayOfWeek) == (7 - dayOfWeek) % 7

\* the days from the equinox's weekday (0 = Sunday) to the first Monday on
\* or after it
daysToMonday(dayOfWeek) == IF dayOfWeek # 1 THEN (8 - dayOfWeek) % 7 ELSE 0

\* getSolarYearStartDate: the cached anchor, or the first Monday on or after
\* the equinox, which it caches; null without a table entry
getSolarYearStartDate(c, v, solarYear) ==
  IF Has(c, solarYear) THEN [val |-> SomeDate(c[solarYear]), cache |-> c]
  ELSE IF ~Has(v, solarYear) THEN [val |-> NullDate, cache |-> c]
  ELSE LET equinoxDate == ParseISODate(v[solarYear])
           dayOfWeek   == getUTCDay(equinoxDate)
           daysToAdd   == daysToMonday(dayOfWeek)
           startDate   == setUTCDate(equinoxDate, getUTCDate(equinoxDate) + daysToAdd)
       IN  [val |-> SomeDate(startDate), cache |-> (solarYear :> startDate) @@ c]

\* preCalculateYearStartDates: getSolarYearStartDate for 1900..2100 in turn.
\* The call for a year reads and writes that year's cache entry only, so
\* the loop's result is the cache extended year by year.
preCalculateYearStartDates(c, v) ==
  [year \in (DOMAIN c) \cup {y \in FirstCacheYear..LastCacheYear : Has(v, y)} |->
     getSolarYearStartDate(c, v, year).val.t]

\* mutant: any year longer than 365 days is leap
leapByDistance_atLeast(diffDays) == diffDays >= 366

\* the leap test on the day distance of two consecutive anchors
leapByDistance(diffDays) == diffDays = 366

\* mutant: the Gregorian rule decides also when both anchors resolve
isSolarLeapYear_gregorianRule(c, v, solarYear) ==
  With(getSolarYearStartDate(c, v, solarYear), LAMBDA startDate :
  With(getSolarYearStartDate(startDate.cache, v, solarYear + 1), LAMBDA nextStartDate :
    LET veYear == IF Has(v, solarYear) THEN v[solarYear][1] ELSE solarYear
    IN  [val |-> isGregorianLeap(veYear), cache |-> nextStartDate.cache]))

\* isSolarLeapYear: 366 days between the year's anchor and the next one;
\* the Gregorian rule on the equinox string's year when an anchor is missing
isSolarLeapYear(c, v, solarYear) ==
  With(getSolarYearStartDate(c, v, solarYear), LAMBDA startDate :
  With(getSolarYearStartDate(startDate.cache, v, solarYear + 1), LAMBDA nextStartDate :
    IF startDate.val.null \/ nextStartDate.val.null
    THEN LET veYear == IF Has(v, solarYear) THEN v[solarYear][1] ELSE solarYear
         IN  [val |-> isGregorianLeap(veYear), cache |-> nextStartDate.cache]
    ELSE LET diffTime == MathAbs(nextStartDate.val.t - startDate.val.t)
             diffDays == MathRound(diffTime, HoursPerDay)
         IN  [val |-> leapByDistance(diffDays), cache |-> nextStartDate.cache]))

\* mutant: the days are added to the cached Date itself, not to a copy
getGregorianDateForSolarDay_inPlace(c, v, solarYear, solarDayOfYear) ==
  With(getSolarYearStartDate(c, v, solarYear), LAMBDA startDate :
    IF startDate.val.null THEN [val |-> NullDate, cache |-> startDate.cache]
    ELSE IF solarDayOfYear < 1 THEN [val |-> NullDate, cache |-> startDate.cache]
    ELSE With(isSolarLeapYear(startDate.cache, v, solarYear), LAMBDA leap :
           IF solarDayOfYear > (IF leap.val THEN 366 ELSE 365)
           THEN [val |-> NullDate, cache |-> leap.cache]
           ELSE With(setUTCDate(startDate.val.t,
                       getUTCDate(startDate.val.t) + solarDayOfYear - 1),
                  LAMBDA targetDate :
                    [val |-> SomeDate(targetDate),
                     cache |-> (solarYear :> targetDate) @@ leap.cache])))

\* getGregorianDateForSolarDay: the anchor plus solarDayOfYear - 1 days, null
\* without an anchor or for a day number outside 1..365 (366 when leap)
getGregorianDateForSolarDay(c, v, solarYear, solarDayOfYear) ==
  With(getSolarYearStartDate(c, v, solarYear), LAMBDA startDate :
    IF startDate.val.null THEN [val |-> NullDate, cache |-> startDate.cache]
    ELSE IF solarDayOfYear < 1 THEN [val |-> NullDate, cache |-> startDate.cache]
    ELSE With(isSolarLeapYear(startDate.cache, v, solarYear), LAMBDA leap :
           IF solarDayOfYear > (IF leap.val THEN 366 ELSE 365)
           THEN [val |-> NullDate, cache |-> leap.cache]
           ELSE [val |-> SomeDate(setUTCDate(startDate.val.t,
                            getUTCDate(startDate.val.t) + solarDayOfYear - 1)),
                 cache |-> leap.cache]))

\* the results of getSolarDateFromGregorian
JSNull == "null"
NullSolar == [kind |-> "null"]
RangeError == [kind |-> "RangeError"]
\* mutant: a special day filed under the last month
SpecialDay_inLastMonth(name, day, year) ==
  [kind |-> "special", monthIndex |-> 12, day |-> day, year |-> year,
   specialDay |-> name, monthName |-> name, monthNumber |-> 13]

SpecialDay(name, day, year) ==
  [kind |-> "special", monthIndex |-> -1, day |-> day, year |-> year,
   specialDay |-> name, monthName |-> name, monthNumber |-> JSNull]
RegularDay(monthIndex, day, year) ==
  [kind |-> "regular", monthIndex |-> monthIndex, day |-> day, year |-> year,
   monthName |-> calendarStructure[monthIndex + 1].name,
   monthNumber |-> monthIndex + 1, specialDay |-> JSNull]

\* mutant: the start date itself counts as before the start
precedesStart_inclusive(gDateUTC, solarYearStartDate) == gDateUTC <= solarYearStartDate

\* the date lies before the start of the candidate solar year
precedesStart(gDateUTC, solarYearStartDate) == gDateUTC < solarYearStartDate

\* getSolarDateFromGregorian on a host off hours ahead of UTC.  The overflow
\* branch calls the function again with the same date (the second argument
\* is not a parameter of the function); depth counts the frames on the stack
\* and the engine throws RangeError when the stack is full.
RECURSIVE getSolarDateFromGregorian(_, _, _, _, _)
getSolarDateFromGregorian(c, v, gregorianDate, off, depth) ==
  LET gDateUTC == DateUTC(getFullYear(gregorianDate, off),
                          getMonth(gregorianDate, off),
                          getDate(gregorianDate, off))
      gYear == getFullYear(gregorianDate, off)
  IN
  With(getSolarYearStartDate(c, v, gYear), LAMBDA first :
  With(first.val.null \/ precedesStart(gDateUTC, first.val.t), LAMBDA back :
  With(IF back THEN getSolarYearStartDate(first.cache, v, gYear - 1) ELSE first,
       LAMBDA solarYearStartDate :
    IF solarYearStartDate.val.null
    THEN [val |-> NullSolar, cache |-> solarYearStartDate.cache]
    ELSE
    LET solarYear == IF back THEN gYear - 1 ELSE gYear
        diffTime == gDateUTC - solarYearStartDate.val.t
        daysSinceSolarYearStart == MathFloor(diffTime, HoursPerDay)
    IN
    With(isSolarLeapYear(solarYearStartDate.cache, v, solarYear), LAMBDA isLeap :
      IF daysSinceSolarYearStart = 364
      THEN [val |-> SpecialDay("Year Day", 1, solarYear), cache |-> isLeap.cache]
      ELSE IF isLeap.val /\ daysSinceSolarYearStart = 365
      THEN [val |-> SpecialDay("Leap Day", 2, solarYear), cache |-> isLeap.cache]
      ELSE IF daysSinceSolarYearStart >= (IF isLeap.val THEN 366 ELSE 365)
      THEN IF depth >= MaxCallDepth
           THEN [val |-> RangeError, cache |-> isLeap.cache]
           ELSE getSolarDateFromGregorian(isLeap.cache, v, gregorianDate, off, depth + 1)
      ELSE IF daysSinceSolarYearStart < 0
      THEN [val |-> NullSolar, cache |-> isLeap.cache]
      ELSE
      LET monthIndex == MathFloor(daysSinceSolarYearStart, 28)
          dayOfMonth == (daysSinceSolarYearStart % 28) + 1
      IN  IF monthIndex < 0 \/ monthIndex >= Len(calendarStructure)
          THEN [val |-> NullSolar, cache |-> isLeap.cache]
          ELSE [val |-> RegularDay(monthIndex, dayOfMonth, solarYear),
                cache |-> isLeap.cache]))))

(***************************************************************************)
(* The month-title formatters.                                             *)
(***************************************************************************)
gregorianMonths ==
  << "January", "February", "March", "April", "May", "June", "July",
     "August", "September", "October", "November", "December" >>

\* arr[i] of a JavaScript array: undefined outside it, which a template
\* literal prints as 'undefined'
ArrayGet(arr, i) == IF (i + 1) \in DOMAIN arr THEN arr[i + 1] ELSE "undefined"
\* str.substring(a, b)
substring(str, a, b) ==
  SubSeq(str, a + 1, IF b > Len(str) THEN Len(str) ELSE b)
\* a {main, sub} pair
Title(main, sub) == [kind |-> "title", main |-> main, sub |-> sub]

\* the guard of formatSolarMonthTitle
invalidSolarMonthIndex(monthIndex) ==
  monthIndex < 0 \/ monthIndex >= Len(calendarStructure)

\* mutant: index 12 passes the guard
invalidGregorianMonthIndex_offByOne(gregorianMonthIndex) ==
  gregorianMonthIndex < 0 \/ gregorianMonthIndex > 12

\* the guard of formatGregorianMonthTitle
invalidGregorianMonthIndex(gregorianMonthIndex) ==
  gregorianMonthIndex < 0 \/ gregorianMonthIndex > 11

formatSolarMonthTitle(c, v, monthIndex, solarYear) ==
  IF invalidSolarMonthIndex(monthIndex)
  THEN [val |-> Title("Invalid Month", ""), cache |-> c]
  ELSE
  LET month == calendarStructure[monthIndex + 1]
      startDayOfYear == month.startDay
      endDayOfYear == startDayOfYear + month.days - 1
  IN
  With(getGregorianDateForSolarDay(c, v, solarYear, startDayOfYear), LAMBDA gregStartDate :
  With(getGregorianDateForSolarDay(gregStartDate.cache, v, solarYear, endDayOfYear),
       LAMBDA gregEndDate :
    LET gregRange ==
          IF ~gregStartDate.val.null /\ ~gregEndDate.val.null
          THEN LET startM == substring(ArrayGet(gregorianMonths,
                                 getUTCMonth(gregStartDate.val.t)), 0, 3)
                   endM == substring(ArrayGet(gregorianMonths,
                                 getUTCMonth(gregEndDate.val.t)), 0, 3)
               IN  IF startM = endM THEN startM ELSE startM \o "-" \o endM
          ELSE ""
    IN  [val |-> Title(month.name \o " / (" \o ToString(monthIndex + 1) \o "/13)",
                       "Gregorian: " \o gregRange),
         cache |-> gregEndDate.cache]))

\* the second half of formatGregorianMonthTitle, from the two solar dates
gregorianMonthTitle(gregorianMonthName, solarStartInfo, solarEndInfo) ==
  LET both == solarStartInfo.kind # "null" /\ solarEndInfo.kind # "null"
      startMonthName == solarStartInfo.monthName
      endMonthName == solarEndInfo.monthName
      \* if (info.monthNumber): a regular day's number is 1..13, a special
      \* day's is null
      startNum == solarStartInfo.kind = "regular"
      endNum == solarEndInfo.kind = "regular"
      solarInfoStr ==
        IF ~both THEN ""
        ELSE IF startMonthName = endMonthName THEN startMonthName
        ELSE startMonthName \o "-" \o endMonthName
      solarNumStr ==
        IF ~both THEN ""
        ELSE IF startMonthName = endMonthName
        THEN (IF startNum THEN ToString(solarStartInfo.monthNumber) \o "/13"
              ELSE "")
        ELSE IF startNum /\ endNum
             THEN ToString(solarStartInfo.monthNumber) \o "-"
                    \o ToString(solarEndInfo.monthNumber) \o "/13"
        ELSE IF startNum THEN ToString(solarStartInfo.monthNumber) \o "/13+"
        ELSE IF endNum THEN "+" \o ToString(solarEndInfo.monthNumber) \o "/13"
        ELSE ""
  IN  Title(gregorianMonthName \o " / Solar: " \o solarInfoStr,
            IF solarNumStr # "" THEN "Month(s) " \o solarNumStr ELSE "")

\* formatGregorianMonthTitle on a host off hours ahead of UTC; a RangeError
\* of getSolarDateFromGregorian propagates to the caller
formatGregorianMonthTitle(c, v, gregorianMonthIndex, gregorianYear, off) ==
  IF invalidGregorianMonthIndex(gregorianMonthIndex)
  THEN [val |-> Title("Invalid Month", ""), cache |-> c]
  ELSE
  LET gregorianMonthName == ArrayGet(gregorianMonths, gregorianMonthIndex)
      gregMonthStartDate == DateUTC(gregorianYear, gregorianMonthIndex, 1)
      gregMonthEndDate == DateUTC(gregorianYear, gregorianMonthIndex + 1, 0)
  IN
  With(getSolarDateFromGregorian(c, v, gregMonthStartDate, off, 1), LAMBDA solarStartInfo :
    IF solarStartInfo.val.kind = "RangeError" THEN solarStartInfo
    ELSE
    With(getSolarDateFromGregorian(solarStartInfo.cache, v, gregMonthEndDate, off, 1),
         LAMBDA solarEndInfo :
      IF solarEndInfo.val.kind = "RangeError" THEN solarEndInfo
      ELSE [val |-> gregorianMonthTitle(gregorianMonthName, solarStartInfo.val,
                                        solarEndInfo.val),
            cache |-> solarEndInfo.cache]))

\* the month indexes the formatters are called with
SolarMonthInputs == (0 - 1)..Len(calendarStructure)
GregorianMonthInputs == (0 - 1)..12

\* the inputs of the conversions
DayInputs == 0..(totalDaysInMonths + 3)
GregorianDays ==
  UNION {DaysFromCivil(y, 1, 1)..DaysFromCivil(y, 12, 31) : y \in QueryYears}
\* new Date(Date.UTC(y, m, d)) of calendar day x
UtcMidnight(x) == x * HoursPerDay
\* new Date(y, m, d) of calendar day x on a host off hours ahead of UTC
LocalMidnight(x, off) == x * HoursPerDay - off

(***************************************************************************)
(* Initial state: a constructed CalendarProcessor on a host with some UTC  *)
(* offset.                                                                 *)
(***************************************************************************)
Init ==
  /\ vernalEquinoxData = EmptyObject
  /\ solarYearStartDateCache = EmptyObject
  /\ loadState = "idle"
  /\ utcOffset \in UtcOffsets
  /\ call = NoCall
  /\ astronomicalEventCache = EmptyObject
  /\ vlVernalEquinoxData = EmptyObject
  /\ vlLoadState = "idle"
  /\ vlCall = NoCall
  /\ rvCall = NoCall
  /\ pgCall = NoCall
  /\ spCall = NoCall
  /\ phpCall = NoCall

\* loadVernalEquinoxData up to its await: the fetch is in flight.  The table
\* is populated once per session.
LoadStart ==
  /\ call = NoCall
  /\ loadState = "idle"
  /\ loadState' = "pending"
  /\ UNCHANGED <<vernalEquinoxData, solarYearStartDateCache, utcOffset, call, astronomicalEventCache, vlVars, rvCall, pgCall, spCall, phpCall>>

\* the fetch answered OK with file variant k
LoadSuccess ==
  /\ call = NoCall
  /\ loadState = "pending"
  /\ \E k \in 0..MaxFileVariant :
       \E v \in {ReduceFile(EquinoxFile(k))} :
           /\ vernalEquinoxData' = v
           /\ solarYearStartDateCache' =
                preCalculateYearStartDates(solarYearStartDateCache, v)
  /\ loadState' = "done"
  /\ UNCHANGED <<utcOffset, call, astronomicalEventCache, vlVars, rvCall, pgCall, spCall, phpCall>>

\* the fetch failed or answered with a non-OK status
LoadFail ==
  /\ call = NoCall
  /\ loadState = "pending"
  /\ \E v \in {useFallbackEquinoxData(vernalEquinoxData)} :
         /\ vernalEquinoxData' = v
         /\ solarYearStartDateCache' =
              preCalculateYearStartDates(solarYearStartDateCache, v)
  /\ loadState' = "done"
  /\ UNCHANGED <<utcOffset, call, astronomicalEventCache, vlVars, rvCall, pgCall, spCall, phpCall>>

GetSolarYearStartDate ==
  /\ call = NoCall
  /\ \E solarYear \in AllYears :
       \E r \in {getSolarYearStartDate(solarYearStartDateCache, vernalEquinoxData, solarYear)} :
           /\ solarYearStartDateCache' = r.cache
           /\ call' = [op |-> "getSolarYearStartDate", solarYear |-> solarYear,
                       ret |-> r.val]
  /\ UNCHANGED <<vernalEquinoxData, loadState, utcOffset, astronomicalEventCache, vlVars, rvCall, pgCall, spCall, phpCall>>

IsSolarLeapYear ==
  /\ call = NoCall
  /\ \E solarYear \in AllYears :
       \E r \in {isSolarLeapYear(solarYearStartDateCache, vernalEquinoxData, solarYear)} :
           /\ solarYearStartDateCache' = r.cache
           /\ call' = [op |-> "isSolarLeapYear", solarYear |-> solarYear,
                       ret |-> r.val]
  /\ UNCHANGED <<vernalEquinoxData, loadState, utcOffset, astronomicalEventCache, vlVars, rvCall, pgCall, spCall, phpCall>>

GetGregorianDateForSolarDay ==
  /\ call = NoCall
  /\ \E solarYear \in QueryYears, solarDayOfYear \in DayInputs :
       \E r \in {getGregorianDateForSolarDay(solarYearStartDateCache,
                   vernalEquinoxData, solarYear, solarDayOfYear)} :
           /\ solarYearStartDateCache' = r.cache
           /\ call' = [op |-> "getGregorianDateForSolarDay",
                       solarYear |-> solarYear,
                       solarDayOfYear |-> solarDayOfYear, ret |-> r.val]
  /\ UNCHANGED <<vernalEquinoxData, loadState, utcOffset, astronomicalEventCache, vlVars, rvCall, pgCall, spCall, phpCall>>

\* getSolarDateFromGregorian on a Date the caller built for a calendar day:
\* at local midnight (new Date(y, m, d)) or at UTC midnight
GetSolarDateFromGregorian ==
  /\ call = NoCall
  /\ \E x \in GregorianDays :
     \E gregorianDate \in {LocalMidnight(x, utcOffset), UtcMidnight(x)} :
       \E r \in {getSolarDateFromGregorian(solarYearStartDateCache,
                   vernalEquinoxData, gregorianDate, utcOffset, 1)} :
           /\ solarYearStartDateCache' = r.cache
           /\ call' = [op |-> "getSolarDateFromGregorian",
                       gregorianDate |-> gregorianDate, of |-> <<>>,
                       ret |-> r.val]
  /\ UNCHANGED <<vernalEquinoxData, loadState, utcOffset, astronomicalEventCache, vlVars, rvCall, pgCall, spCall, phpCall>>

\* getSolarDateFromGregorian on the Date getGregorianDateForSolarDay has
\* just returned
ConvertBack ==
  /\ call.op = "getGregorianDateForSolarDay"
  /\ ~call.ret.null
  /\ \E r \in {getSolarDateFromGregorian(solarYearStartDateCache,
                 vernalEquinoxData, call.ret.t, utcOffset, 1)} :
         /\ solarYearStartDateCache' = r.cache
         /\ call' = [op |-> "getSolarDateFromGregorian",
                     gregorianDate |-> call.ret.t,
                     of |-> <<call.solarYear, call.solarDayOfYear>>,
                     ret |-> r.val]
  /\ UNCHANGED <<vernalEquinoxData, loadState, utcOffset, astronomicalEventCache, vlVars, rvCall, pgCall, spCall, phpCall>>

FormatSolarMonthTitle ==
  /\ call = NoCall
  /\ \E monthIndex \in SolarMonthInputs, solarYear \in QueryYears :
       \E r \in {formatSolarMonthTitle(solarYearStartDateCache,
                   vernalEquinoxData, monthIndex, solarYear)} :
           /\ solarYearStartDateCache' = r.cache
           /\ call' = [op |-> "formatSolarMonthTitle", monthIndex |-> monthIndex,
                       solarYear |-> solarYear, ret |-> r.val]
  /\ UNCHANGED <<vernalEquinoxData, loadState, utcOffset, astronomicalEventCache, vlVars, rvCall, pgCall, spCall, phpCall>>

FormatGregorianMonthTitle ==
  /\ call = NoCall
  /\ \E gregorianMonthIndex \in GregorianMonthInputs, gregorianYear \in AllYears :
       \E r \in {formatGregorianMonthTitle(solarYearStartDateCache,
                   vernalEquinoxData, gregorianMonthIndex, gregorianYear,
                   utcOffset)} :
           /\ solarYearStartDateCache' = r.cache
           /\ call' = [op |-> "formatGregorianMonthTitle",
                       gregorianMonthIndex |-> gregorianMonthIndex,
                       gregorianYear |-> gregorianYear, ret |-> r.val]
  /\ UNCHANGED <<vernalEquinoxData, loadState, utcOffset, astronomicalEventCache, vlVars, rvCall, pgCall, spCall, phpCall>>

\* getAstronomicalEvents: the cached events object of the year, or a new
\* one, which it caches: the equinox of the table, March 20 without an entry
getAstronomicalEvents(e, v, year) ==
  IF Has(e, year) THEN [val |-> e[year], cache |-> e]
  ELSE LET vernalEquinoxDate == IF Has(v, year) THEN ParseISODate(v[year])
                                ELSE DateUTC(year, 2, 20)
           events == [vernalEquinox  |-> vernalEquinoxDate,
                      summerSolstice |-> DateUTC(year, 5, 21),
                      autumnEquinox  |-> DateUTC(year, 8, 22),
                      winterSolstice |-> DateUTC(year, 11, 21)]
       IN  [val |-> events, cache |-> (year :> events) @@ e]

GetAstronomicalEvents ==
  /\ call = NoCall
  /\ \E year \in QueryYears :
       \E r \in {getAstronomicalEvents(astronomicalEventCache,
                   vernalEquinoxData, year)} :
           /\ astronomicalEventCache' = r.cache
           /\ call' = [op |-> "getAstronomicalEvents", year |-> year,
                       ret |-> r.val]
  /\ UNCHANGED <<vernalEquinoxData, solarYearStartDateCache, loadState, utcOffset, vlVars, rvCall, pgCall, spCall, phpCall>>

\* the caller is done with the result in hand
Return ==
  /\ call # NoCall
  /\ call' = NoCall
  /\ UNCHANGED <<vernalEquinoxData, solarYearStartDateCache, loadState, utcOffset, astronomicalEventCache, vlVars, rvCall, pgCall, spCall, phpCall>>

Next ==
  \/ LoadStart
  \/ LoadSuccess
  \/ LoadFail
  \/ GetSolarYearStartDate
  \/ IsSolarLeapYear
  \/ GetGregorianDateForSolarDay
  \/ GetSolarDateFromGregorian
  \/ ConvertBack
  \/ FormatSolarMonthTitle
  \/ FormatGregorianMonthTitle
  \/ Return

Spec == Init /\ [][Next]_vars

\* loadVernalEquinoxData called again on a loaded processor: the method is
\* public and nothing in it looks at an earlier load
LoadAgain ==
  /\ call = NoCall
  /\ loadState = "done"
  /\ loadState' = "pending"
  /\ UNCHANGED <<vernalEquinoxData, solarYearStartDateCache, utcOffset, call, astronomicalEventCache, vlVars, rvCall, pgCall, spCall, phpCall>>

\* the loads and the calls that fill the cache (every other operation
\* reaches the cache through getSolarYearStartDate)
NextReload ==
  \/ LoadStart
  \/ LoadSuccess
  \/ LoadFail
  \/ LoadAgain
  \/ GetSolarYearStartDate
  \/ IsSolarLeapYear
  \/ Return

\* the processor with repeated loads
SpecReload == Init /\ [][NextReload]_vars

\* the loads and the astronomical events of a year
NextEvents ==
  \/ LoadStart
  \/ LoadSuccess
  \/ LoadFail
  \/ GetAstronomicalEvents
  \/ Return

SpecEvents == Init /\ [][NextEvents]_vars

\* the continuation of loadVernalEquinoxData after `await fetch` has run:
\* a LoadSuccess or a LoadFail step
LoadSettles == call = NoCall /\ loadState = "pending" /\ loadState' = "done"

\* Scheduling: a method call runs to completion, and the continuation of
\* loadVernalEquinoxData runs once the fetch promise has settled and no call
\* is on the stack; fetch always settles.
SpecLive == Spec /\ WF_vars(Return) /\ SF_loadState(LoadSettles)

(***************************************************************************)
(* The variable-layout class: 12 months of 31/30/29-30 days, the year      *)
(* starting on the equinox date itself.                                    *)
(***************************************************************************)
\* Math.ceil(a / b) for a >= 0, b > 0
MathCeil(a, b) == (a + b - 1) \div b

vl_isSolarLeapYear(v, solarYear) ==
  IF ~Has(v, solarYear) \/ ~Has(v, solarYear + 1)
  THEN isGregorianLeap(solarYear)
  ELSE LET startDate     == ParseISODate(v[solarYear])
           nextStartDate == ParseISODate(v[solarYear + 1])
           diffTime      == MathAbs(nextStartDate - startDate)
           diffDays      == MathCeil(diffTime, HoursPerDay)
       IN  diffDays = 366

\* getGregorianDateForSolarDay of the variable-layout class: the equinox
\* plus solarDay - 1 days, whatever solarDay is; null without a table entry
vl_getGregorianDateForSolarDay(v, solarYear, solarDay) ==
  IF ~Has(v, solarYear) THEN NullDate
  ELSE LET startDate == ParseISODate(v[solarYear])
       IN  SomeDate(setUTCDate(startDate, getUTCDate(startDate) + solarDay - 1))

solarMonths ==
  << [englishName |-> "First Month",    persianName |-> "Farvardin",   days |-> 31, startDay |-> 1],
     [englishName |-> "Second Month",   persianName |-> "Ordibehesht", days |-> 31, startDay |-> 32],
     [englishName |-> "Third Month",    persianName |-> "Khordad",     days |-> 31, startDay |-> 63],
     [englishName |-> "Fourth Month",   persianName |-> "Tir",         days |-> 31, startDay |-> 94],
     [englishName |-> "Fifth Month",    persianName |-> "Mordad",      days |-> 31, startDay |-> 125],
     [englishName |-> "Sixth Month",    persianName |-> "Shahrivar",   days |-> 31, startDay |-> 156],
     [englishName |-> "Seventh Month",  persianName |-> "Mehr",        days |-> 30, startDay |-> 187],
     [englishName |-> "Eighth Month",   persianName |-> "Aban",        days |-> 30, startDay |-> 217],
     [englishName |-> "Ninth Month",    persianName |-> "Azar",        days |-> 30, startDay |-> 247],
     [englishName |-> "Tenth Month",    persianName |-> "Dey",         days |-> 30, startDay |-> 277],
     [englishName |-> "Eleventh Month", persianName |-> "Bahman",      days |-> 30, startDay |-> 307],
     [englishName |-> "Twelfth Month",  persianName |-> "Esfand",      days |-> 29, startDay |-> 337] >>

\* mutant: the last month keeps its base length in a leap year
vl_getDaysInSolarMonth_noLeap(v, solarYear, monthIndex) ==
  IF monthIndex < 0 \/ monthIndex > 11 THEN 0
  ELSE solarMonths[monthIndex + 1].days

vl_getDaysInSolarMonth(v, solarYear, monthIndex) ==
  IF monthIndex < 0 \/ monthIndex > 11 THEN 0
  ELSE IF monthIndex = 11 /\ vl_isSolarLeapYear(v, solarYear) THEN 30
  ELSE solarMonths[monthIndex + 1].days

\* the result of _getSolarMonthDayFromDayNumber for month i
vl_MonthDay(i, dayOfMonth, solarYear) ==
  [kind |-> "regular", monthIndex |-> i, day |-> dayOfMonth, year |-> solarYear,
   englishName |-> solarMonths[i + 1].englishName,
   persianName |-> solarMonths[i + 1].persianName,
   monthNumber |-> i + 1]

\* the for loop of _getSolarMonthDayFromDayNumber from month i on
RECURSIVE vl_monthLoop(_, _, _, _, _)
vl_monthLoop(v, dayNumber, solarYear, i, dayCounter) ==
  IF ~(i < Len(solarMonths)) THEN NullSolar
  ELSE LET daysInCurrentMonth == vl_getDaysInSolarMonth(v, solarYear, i)
       IN  IF dayNumber <= dayCounter + daysInCurrentMonth
           THEN vl_MonthDay(i, dayNumber - dayCounter, solarYear)
           ELSE vl_monthLoop(v, dayNumber, solarYear, i + 1,
                             dayCounter + daysInCurrentMonth)

vl_getSolarMonthDayFromDayNumber(v, dayNumber, solarYear) ==
  IF dayNumber < 1
     \/ dayNumber > (IF vl_isSolarLeapYear(v, solarYear) THEN 366 ELSE 365)
  THEN NullSolar
  ELSE vl_monthLoop(v, dayNumber, solarYear, 0, 0)

VL_LoadStart ==
  /\ vlCall = NoCall
  /\ vlLoadState = "idle"
  /\ vlLoadState' = "pending"
  /\ UNCHANGED <<vlVernalEquinoxData, vlCall, utcOffset, fixedVars, rvCall, pgCall, spCall, phpCall>>

VL_LoadSuccess ==
  /\ vlCall = NoCall
  /\ vlLoadState = "pending"
  /\ \E k \in 0..MaxFileVariant :
       vlVernalEquinoxData' = ReduceFile(EquinoxFile(k))
  /\ vlLoadState' = "done"
  /\ UNCHANGED <<vlCall, utcOffset, fixedVars, rvCall, pgCall, spCall, phpCall>>

VL_LoadFail ==
  /\ vlCall = NoCall
  /\ vlLoadState = "pending"
  /\ vlVernalEquinoxData' = useFallbackEquinoxData(vlVernalEquinoxData)
  /\ vlLoadState' = "done"
  /\ UNCHANGED <<vlCall, utcOffset, fixedVars, rvCall, pgCall, spCall, phpCall>>

VL_IsSolarLeapYear ==
  /\ vlCall = NoCall
  /\ \E solarYear \in AllYears :
       vlCall' = [op |-> "isSolarLeapYear", solarYear |-> solarYear,
                  ret |-> vl_isSolarLeapYear(vlVernalEquinoxData, solarYear)]
  /\ UNCHANGED <<vlVernalEquinoxData, vlLoadState, utcOffset, fixedVars, rvCall, pgCall, spCall, phpCall>>

VL_GetGregorianDateForSolarDay ==
  /\ vlCall = NoCall
  /\ \E solarYear \in QueryYears, solarDay \in DayInputs :
       vlCall' = [op |-> "getGregorianDateForSolarDay",
                  solarYear |-> solarYear, solarDay |-> solarDay,
                  ret |-> vl_getGregorianDateForSolarDay(vlVernalEquinoxData,
                             solarYear, solarDay)]
  /\ UNCHANGED <<vlVernalEquinoxData, vlLoadState, utcOffset, fixedVars, rvCall, pgCall, spCall, phpCall>>

VL_GetDaysInSolarMonth ==
  /\ vlCall = NoCall
  /\ \E solarYear \in AllYears, monthIndex \in (0 - 1)..Len(solarMonths) :
       vlCall' = [op |-> "getDaysInSolarMonth", solarYear |-> solarYear,
                  monthIndex |-> monthIndex,
                  ret |-> vl_getDaysInSolarMonth(vlVernalEquinoxData,
                             solarYear, monthIndex)]
  /\ UNCHANGED <<vlVernalEquinoxData, vlLoadState, utcOffset, fixedVars, rvCall, pgCall, spCall, phpCall>>

VL_GetSolarMonthDayFromDayNumber ==
  /\ vlCall = NoCall
  /\ \E solarYear \in QueryYears, dayNumber \in DayInputs :
       vlCall' = [op |-> "_getSolarMonthDayFromDayNumber",
                  solarYear |-> solarYear, dayNumber |-> dayNumber,
                  ret |-> vl_getSolarMonthDayFromDayNumber(vlVernalEquinoxData,
                             dayNumber, solarYear)]
  /\ UNCHANGED <<vlVernalEquinoxData, vlLoadState, utcOffset, fixedVars, rvCall, pgCall, spCall, phpCall>>

VL_Return ==
  /\ vlCall # NoCall
  /\ vlCall' = NoCall
  /\ UNCHANGED <<vlVernalEquinoxData, vlLoadState, utcOffset, fixedVars, rvCall, pgCall, spCall, phpCall>>

NextVL ==
  \/ VL_LoadStart
  \/ VL_LoadSuccess
  \/ VL_LoadFail
  \/ VL_IsSolarLeapYear
  \/ VL_GetGregorianDateForSolarDay
  \/ VL_GetDaysInSolarMonth
  \/ VL_GetSolarMonthDayFromDayNumber
  \/ VL_Return

SpecVL == Init /\ [][NextVL]_vars

(***************************************************************************)
(* The README variant of CalendarProcessor (src/unnamed/part_001): the     *)
(* 12-month layout with a built-in equinox table, dates in local time.     *)
(***************************************************************************)
rv_FirstYear == 1900
rv_LastYear == 2100
rv_Years ==
  ((rv_FirstYear - 1)..(rv_FirstYear + VariantSpan))
    \cup ((rv_LastYear - VariantSpan)..(rv_LastYear + 1))
march19Years == {year \in 1916..2100 : year % 4 = 0}

\* _initVernalEquinoxData: March 20, March 19 for the listed years from 2016
rv_vernalEquinoxData ==
  [year \in rv_FirstYear..rv_LastYear |->
     IF year \in march19Years /\ year >= 2016
     THEN <<year, 3, 19>> ELSE <<year, 3, 20>>]

\* new Date(str + 'T00:00:00'): local midnight of the date <<y, m, d>>
ParseLocalDate(s, off) == LocalMidnight(DaysFromCivil(s[1], s[2], s[3]), off)

\* the month object i (0-based) of solarMonths holds day number n
rv_inMonth(dayNumber, i) ==
  /\ dayNumber >= solarMonths[i + 1].startDay
  /\ dayNumber < solarMonths[i + 1].startDay + solarMonths[i + 1].days

\* _getSolarMonthDay: the first month whose fixed range holds dayNumber
rv_getSolarMonthDay(dayNumber, solarYear) ==
  IF \E i \in 0..(Len(solarMonths) - 1) : rv_inMonth(dayNumber, i)
  THEN LET i == CHOOSE j \in 0..(Len(solarMonths) - 1) :
                  /\ rv_inMonth(dayNumber, j)
                  /\ \A k \in 0..(j - 1) : ~rv_inMonth(dayNumber, k)
       IN  vl_MonthDay(i, dayNumber - solarMonths[i + 1].startDay + 1, solarYear)
  ELSE NullSolar

rv_getSolarDateFromGregorian(gregorianDate, gregorianYear, off) ==
  IF ~Has(rv_vernalEquinoxData, gregorianYear) THEN NullSolar
  ELSE
  LET startDate == ParseLocalDate(rv_vernalEquinoxData[gregorianYear], off)
      daysDiff == MathFloor(gregorianDate - startDate, HoursPerDay) + 1
  IN  IF daysDiff < 1
      THEN IF ~Has(rv_vernalEquinoxData, gregorianYear - 1) THEN NullSolar
           ELSE LET prevStartDate ==
                      ParseLocalDate(rv_vernalEquinoxData[gregorianYear - 1], off)
                    prevDaysDiff ==
                      MathFloor(gregorianDate - prevStartDate, HoursPerDay) + 1
                IN  rv_getSolarMonthDay(prevDaysDiff, gregorianYear - 1)
      ELSE rv_getSolarMonthDay(daysDiff, gregorianYear)

rv_GregorianDays ==
  UNION {DaysFromCivil(y, 1, 1)..DaysFromCivil(y, 12, 31) : y \in rv_Years}

\* getSolarDateFromGregorian on the local-midnight Date of a calendar day,
\* with the day's Gregorian year or the year before as gregorianYear
RV_GetSolarDateFromGregorian ==
  /\ rvCall = NoCall
  /\ \E x \in rv_GregorianDays, back \in {0, 1} :
       LET gregorianDate == LocalMidnight(x, utcOffset)
           gregorianYear == CivilFromDays(x).year - back
       IN  rvCall' = [op |-> "getSolarDateFromGregorian",
                      gregorianDate |-> gregorianDate,
                      gregorianYear |-> gregorianYear,
                      ret |-> rv_getSolarDateFromGregorian(gregorianDate,
                                 gregorianYear, utcOffset)]
  /\ UNCHANGED <<fixedVars, utcOffset, vlVars, pgCall, spCall, phpCall>>

RV_Return ==
  /\ rvCall # NoCall
  /\ rvCall' = NoCall
  /\ UNCHANGED <<fixedVars, utcOffset, vlVars, pgCall, spCall, phpCall>>

NextRV ==
  \/ RV_GetSolarDateFromGregorian
  \/ RV_Return

SpecRV == Init /\ [][NextRV]_vars

(***************************************************************************)
(* The Gregorian page (src/gregorian-calendar.html): getSolarDate labels   *)
(* each day of a Gregorian year with its date in the 13-month calendar.    *)
(***************************************************************************)
customMonths ==
  << "March", "April", "May", "June", "July", "August", "September",
     "October", "November", "December", "January", "February", "Sol" >>
GregorianReformYear == 1583
EquinoxShiftYear == 2044
PageYears ==
  ((GregorianReformYear - PageSpan)..(GregorianReformYear + PageSpan))
    \cup ((EquinoxShiftYear - PageSpan)..(EquinoxShiftYear + PageSpan))

\* new Date(year, monthIndex, day): local midnight; a year 0..99 means
\* 1900 + year
NewDate(year, m0, d, off) ==
  DateUTC(IF year \in 0..99 THEN 1900 + year ELSE year, m0, d) - off

pg_getSpringEquinox(year, off) ==
  IF year < GregorianReformYear THEN NewDate(year, 2, 21, off)
  ELSE IF year >= EquinoxShiftYear /\ (year - EquinoxShiftYear) % 4 = 0
       THEN NewDate(year, 2, 19, off)
  ELSE NewDate(year, 2, 20, off)

pg_getFirstMonday(date, off) ==
  LET day == getDay(date, off)
      offset == IF day = 1 THEN 0 ELSE (8 - day) % 7
  IN  date + offset * HoursPerDay

pg_isLeapYear(year) == year % 4 = 0 /\ (year % 100 # 0 \/ year % 400 = 0)

\* the while loop of getSolarDate: the last year, from solarYear down,
\* whose start is not after the date
RECURSIVE pg_solarYearOf(_, _, _)
pg_solarYearOf(date, solarYear, off) ==
  IF date < pg_getFirstMonday(pg_getSpringEquinox(solarYear, off), off)
  THEN pg_solarYearOf(date, solarYear - 1, off)
  ELSE solarYear

\* the results of getSolarDate
pg_Special(year, name) ==
  [kind |-> "special", year |-> year, month |-> name, day |-> JSNull]
pg_Regular(year, month, day) ==
  [kind |-> "regular", year |-> year, month |-> month, day |-> day]

pg_getSolarDate(date, off) ==
  LET solarYear == pg_solarYearOf(date, getFullYear(date, off), off)
      solarYearStart == pg_getFirstMonday(pg_getSpringEquinox(solarYear, off), off)
      diffDays == MathFloor(date - solarYearStart, HoursPerDay)
  IN  IF diffDays = 364 THEN pg_Special(solarYear, "Equinox Day")
      ELSE IF pg_isLeapYear(solarYear) /\ diffDays = 168
      THEN pg_Special(solarYear, "Solstice Day")
      ELSE LET adjustedDay == IF pg_isLeapYear(solarYear) /\ diffDays > 168
                              THEN diffDays - 1 ELSE diffDays
               monthIndex == MathFloor(adjustedDay, 28)
               day == (adjustedDay % 28) + 1
           IN  pg_Regular(solarYear, ArrayGet(customMonths, monthIndex), day)

\* buildGregorianCalendar(year) calls getSolarDate(new Date(year, month, day))
\* for every day of the year
PG_GetSolarDate ==
  /\ pgCall = NoCall
  /\ \E year \in PageYears, month \in 0..11 :
       \E day \in 1..daysInGregorianMonth(year, month + 1) :
         LET date == NewDate(year, month, day, utcOffset)
         IN  pgCall' = [op |-> "getSolarDate", date |-> date,
                        ret |-> pg_getSolarDate(date, utcOffset)]
  /\ UNCHANGED <<fixedVars, utcOffset, vlVars, rvCall, spCall, phpCall>>

PG_Return ==
  /\ pgCall # NoCall
  /\ pgCall' = NoCall
  /\ UNCHANGED <<fixedVars, utcOffset, vlVars, rvCall, spCall, phpCall>>

NextPG ==
  \/ PG_GetSolarDate
  \/ PG_Return

SpecPG == Init /\ [][NextPG]_vars

(***************************************************************************)
(* The solar page (solar-calendar.html) beside the Gregorian page.  Its    *)
(* getSpringEquinox, getFirstMonday and isLeapYear have the text of the    *)
(* Gregorian page's functions.                                            *)
(***************************************************************************)
\* date.toISOString().split('T')[0]: the UTC calendar date <<y, m, d>>
toISODate(t) ==
  LET civil == CivilFromDays(t \div HoursPerDay)
  IN  <<civil.year, civil.month, civil.day>>

\* buildCalendar(year): the cell of month m, row week, column day.  One
\* setDate(getDate() + 1) has run for every cell before it; the Solstice
\* Day block after August moves no date.
sp_cell(year, m, week, day, off) ==
  LET equinoxDate == pg_getSpringEquinox(year, off)
      startDate   == pg_getFirstMonday(equinoxDate, off)
      currentDate == startDate + (m * 28 + week * 7 + day) * HoursPerDay
  IN  [gregDate  |-> toISODate(currentDate),
       monthName |-> customMonths[m + 1],
       customDay |-> week * 7 + day + 1]

SP_BuildCalendar ==
  /\ spCall = NoCall
  /\ pgCall = NoCall
  /\ \E year \in PageYears, m \in 0..12, week \in 0..3, day \in 0..6 :
       spCall' = [op |-> "buildCalendar", year |-> year,
                  cell |-> sp_cell(year, m, week, day, utcOffset)]
  /\ UNCHANGED <<fixedVars, utcOffset, vlVars, rvCall, pgCall, phpCall>>

\* the Gregorian page's getSolarDate for the date printed in the cell
PG_GetSolarDateOfCell ==
  /\ spCall # NoCall
  /\ pgCall = NoCall
  /\ LET g    == spCall.cell.gregDate
         date == NewDate(g[1], g[2] - 1, g[3], utcOffset)
     IN  pgCall' = [op |-> "getSolarDate", date |-> date,
                    ret |-> pg_getSolarDate(date, utcOffset)]
  /\ UNCHANGED <<fixedVars, utcOffset, vlVars, rvCall, spCall, phpCall>>

\* the solar page is rebuilt or left
SP_Return ==
  /\ spCall # NoCall
  /\ spCall' = NoCall
  /\ pgCall' = NoCall
  /\ UNCHANGED <<fixedVars, utcOffset, vlVars, rvCall, phpCall>>

NextPages ==
  \/ SP_BuildCalendar
  \/ PG_GetSolarDateOfCell
  \/ SP_Return

SpecPages == Init /\ [][NextPages]_vars

(***************************************************************************)
(* The PHP endpoint.  A DateTime is counted in ticks, TicksPerDay to the   *)
(* day: DateTime::createFromFormat('Y-m-d', s) takes the date from s and   *)
(* the time of day from the system clock at the moment of the call.  The   *)
(* input is created first, at clock reading 0; a DateTime created later    *)
(* has reading 0 when the clock has not moved since and 1 when it has.     *)
(***************************************************************************)
TicksPerDay == 2
ClockReadings == 0..(TicksPerDay - 1)
php_createFromFormat(s, clock) ==
  DaysFromCivil(s[1], s[2], s[3]) * TicksPerDay + clock
\* $d->format('Y-m-d'), as a day number
php_formatYmd(dt) == dt \div TicksPerDay
\* (int)$d->format('Y')
php_formatY(dt) == CivilFromDays(dt \div TicksPerDay).year
\* (int)$d->format('w'): 0 = Sunday
php_formatW(dt) == ((dt \div TicksPerDay) + 4) % 7

PhpNull == [null |-> TRUE, dt |-> 0]
PhpDate(dt) == [null |-> FALSE, dt |-> dt]

\* the foreach of findMostRecentEquinox from entry y on (the file lists the
\* years in ascending order): it stops at the first entry later than
\* inputDate
RECURSIVE php_foreach(_, _, _, _, _)
php_foreach(inputDate, equinoxDates, clock, y, lastEquinox) ==
  IF ~Has(equinoxDates, y) THEN lastEquinox
  ELSE LET equinoxDate == php_createFromFormat(equinoxDates[y], clock)
       IN  IF equinoxDate > inputDate THEN lastEquinox
           ELSE php_foreach(inputDate, equinoxDates, clock, y + 1,
                            PhpDate(equinoxDate))

php_findMostRecentEquinox(inputDate, equinoxDates, clock) ==
  php_foreach(inputDate, equinoxDates, clock, FileFirstYear, PhpNull)

php_getFirstMondayAfter(start) ==
  LET dayOfWeek == php_formatW(start)
      daysToAdd == IF dayOfWeek = 1 THEN 0 ELSE (8 - dayOfWeek) % 7
  IN  start + daysToAdd * TicksPerDay

monthNames ==
  << "March", "April", "May", "June", "Quintilis", "Sextilis", "September",
     "October", "November", "December", "January", "February", "Sol" >>

\* the results of convertToCustomCalendar; TypeError is the uncaught error
\* of passing null to a parameter declared DateTime
php_Record(year, month, day) ==
  [kind |-> "record", Year |-> year, Month |-> month, Day |-> day]
php_Message(text) == [kind |-> "string", text |-> text]
php_TypeError == [kind |-> "TypeError"]

\* getFirstMondayAfter(DateTime $start) is handed null
php_previousMissing(previousEquinox) == previousEquinox.null

\* convertToCustomCalendar on a well-formed date string <<y, m, d>>; clock
\* and clock2 are the clock readings of the two table scans
php_convertToCustomCalendar(gregorianDateStr, equinoxDates, clock, clock2) ==
  LET inputDate == php_createFromFormat(gregorianDateStr, 0)
      equinox == php_findMostRecentEquinox(inputDate, equinoxDates, clock)
  IN
  IF equinox.null
  THEN php_Message("No equinox date available before input.")
  ELSE IF php_formatYmd(inputDate) = php_formatYmd(equinox.dt)
  THEN php_Record(php_formatY(inputDate), "Equinox Day", JSNull)
  ELSE
  LET firstStart == php_getFirstMondayAfter(equinox.dt)
      back == inputDate < firstStart
      previousEquinox ==
        IF back
        THEN php_findMostRecentEquinox(equinox.dt - TicksPerDay,
                                       equinoxDates, clock2)
        ELSE equinox
  IN
  IF back /\ php_previousMissing(previousEquinox) THEN php_TypeError
  ELSE
  LET calendarYearStart == IF back THEN php_getFirstMondayAfter(previousEquinox.dt)
                           ELSE firstStart
      currentYear == IF back THEN php_formatY(previousEquinox.dt)
                     ELSE php_formatY(inputDate)
      daysSinceStart == MathAbs(inputDate - calendarYearStart) \div TicksPerDay
  IN  IF daysSinceStart >= 364
      THEN php_Record(currentYear, "Equinox Day", JSNull)
      ELSE php_Record(currentYear,
                      ArrayGet(monthNames, daysSinceStart \div 28),
                      (daysSinceStart % 28) + 1)

\* the years whose dates are asked: the first years of the file
PhpSpan == 2
PhpYears == FileFirstYear..(FileFirstYear + PhpSpan)

\* a request: the table is read from the file, the date converted
PHP_ConvertToCustomCalendar ==
  /\ phpCall = NoCall
  /\ \E k \in 0..MaxFileVariant, year \in PhpYears, month \in 1..12,
        clock \in ClockReadings :
       \E day \in 1..daysInGregorianMonth(year, month),
          clock2 \in clock..(TicksPerDay - 1) :
         phpCall' = [op |-> "convertToCustomCalendar",
                     gregorianDateStr |-> <<year, month, day>>,
                     equinoxDates |-> k,
                     ret |-> php_convertToCustomCalendar(<<year, month, day>>,
                               EquinoxFile(k), clock, clock2)]
  /\ UNCHANGED <<fixedVars, utcOffset, vlVars, rvCall, pgCall, spCall>>

PHP_Return ==
  /\ phpCall # NoCall
  /\ phpCall' = NoCall
  /\ UNCHANGED <<fixedVars, utcOffset, vlVars, rvCall, pgCall, spCall>>

NextPHP ==
  \/ PHP_ConvertToCustomCalendar
  \/ PHP_Return

SpecPHP == Init /\ [][NextPHP]_vars

(***************************************************************************)
(* Properties.                                                             *)
(***************************************************************************)
\* the anchor of a year as getSolarYearStartDate resolves it in this state
anchorOf(y) == getSolarYearStartDate(solarYearStartDateCache, vernalEquinoxData, y).val
resolves(y) == ~anchorOf(y).null
\* whole days from the anchor of y to the anchor of y + 1
anchorGap(y) == (anchorOf(y + 1).t - anchorOf(y).t) \div HoursPerDay
\* the calendar day (day number) a Date shows in the host's local time
localDay(t) == (t + utcOffset) \div HoursPerDay
\* the calendar day of a UTC-midnight Date
utcDay(t) == t \div HoursPerDay
isConvertBack == call.op = "getSolarDateFromGregorian" /\ call.of # <<>>

\* C1: round trip, regular days: converting the Date returned by
\* getGregorianDateForSolarDay(Y, d), d in 1..364, back with
\* getSolarDateFromGregorian gives year Y, monthIndex (d-1) div 28,
\* day ((d-1) mod 28) + 1 and no special day.
C1_RoundTripRegular ==
  (isConvertBack /\ call.of[2] \in 1..364)
    => call.ret = RegularDay((call.of[2] - 1) \div 28,
                             ((call.of[2] - 1) % 28) + 1, call.of[1])

\* C2: round trip, special days: the Date of day 365 of year Y converts back
\* to the Year Day of Y, the Date of day 366 (valid in a leap year only) to
\* the Leap Day of Y.
C2_RoundTripSpecial ==
  /\ (isConvertBack /\ call.of[2] = 365)
       => call.ret = SpecialDay("Year Day", 1, call.of[1])
  /\ (isConvertBack /\ call.of[2] = 366)
       => call.ret = SpecialDay("Leap Day", 2, call.of[1])

\* C3: leap consistency: when the anchors of Y and Y+1 both resolve,
\* isSolarLeapYear(Y) answers true exactly when they are 366 days apart.
C3_LeapIffGap366 ==
  (call.op = "isSolarLeapYear" /\ resolves(call.solarYear)
     /\ resolves(call.solarYear + 1))
    => (call.ret <=> (anchorGap(call.solarYear) = 366))

\* C3 witness: isSolarLeapYear has answered for a year both of whose anchors
\* resolve and that is longer than 365 days.
C3_Witness ==
  /\ call.op = "isSolarLeapYear"
  /\ resolves(call.solarYear) /\ resolves(call.solarYear + 1)
  /\ anchorGap(call.solarYear) > 365
  /\ call.ret = FALSE

\* C4: year length: consecutive anchors computed by getSolarYearStartDate are
\* exactly 365 or 366 days apart.
C4_YearLength365or366 ==
  \A y \in DOMAIN solarYearStartDateCache :
    Has(solarYearStartDateCache, y + 1) => anchorGap(y) \in {365, 366}

\* C5: for a year with an equinox entry getSolarYearStartDate returns the
\* first Monday on or after the equinox: a Monday, not before the equinox,
\* at most 6 days after it, and the equinox itself when that is a Monday.
C5_FirstMondayOnOrAfter ==
  (call.op = "getSolarYearStartDate" /\ Has(vernalEquinoxData, call.solarYear))
    => LET equinox == ParseISODate(vernalEquinoxData[call.solarYear])
       IN  /\ ~call.ret.null
           /\ getUTCDay(call.ret.t) = 1
           /\ call.ret.t >= equinox
           /\ call.ret.t <= equinox + 6 * HoursPerDay
           /\ (getUTCDay(equinox) = 1 => call.ret.t = equinox)

\* C5 witness: getSolarYearStartDate has moved a Tuesday equinox six days on.
C5_Witness ==
  /\ call.op = "getSolarYearStartDate"
  /\ Has(vernalEquinoxData, call.solarYear)
  /\ getUTCDay(ParseISODate(vernalEquinoxData[call.solarYear])) = 2
  /\ ~call.ret.null
  /\ call.ret.t = ParseISODate(vernalEquinoxData[call.solarYear]) + 6 * HoursPerDay

C7_BackwardStepResolves ==
  call.op = "getSolarDateFromGregorian"
    => LET d == localDay(call.gregorianDate)
           g == CivilFromDays(d).year
       IN  (g \in FirstCacheYear..LastCacheYear /\ resolves(g)
              /\ d < utcDay(anchorOf(g).t))
             => /\ call.ret.kind \in {"regular", "special"}
                /\ call.ret.year = g - 1

\* C8: termination: every call of getSolarDateFromGregorian returns a result
\* or null; the recursion through the overflow branch never exhausts the
\* stack.
C8_ConversionTerminates ==
  call.op = "getSolarDateFromGregorian" => call.ret.kind # "RangeError"

\* C9: missing anchor data: getGregorianDateForSolarDay returns null for a
\* year without a table entry, and getSolarDateFromGregorian returns null
\* (it does not throw) for a date for which neither its Gregorian year nor
\* the year before has an entry, or which lies 366 days or more past the
\* anchor of the last year that has one.
C9_MissingDataGivesNull ==
  /\ (call.op = "getGregorianDateForSolarDay"
        /\ ~Has(vernalEquinoxData, call.solarYear))
       => call.ret.null
  /\ call.op = "getSolarDateFromGregorian"
       => LET d == localDay(call.gregorianDate)
              g == CivilFromDays(d).year
          IN  /\ (~Has(vernalEquinoxData, g) /\ ~Has(vernalEquinoxData, g - 1))
                   => call.ret = NullSolar
              /\ (~Has(vernalEquinoxData, g) /\ Has(vernalEquinoxData, g - 1)
                    /\ d - utcDay(anchorOf(g - 1).t) >= 366)
                   => call.ret = NullSolar

\* C10: in both classes getGregorianDateForSolarDay(Y, d), for a year Y
\* with a start date, returns null when d < 1 or d > 365 (366 when Y is
\* leap) and otherwise the date d - 1 days after the start date of Y.
C10_DayRangeChecked ==
  /\ (call.op = "getGregorianDateForSolarDay" /\ resolves(call.solarYear))
       => IF call.solarDayOfYear < 1
             \/ call.solarDayOfYear >
                  (IF isSolarLeapYear(solarYearStartDateCache, vernalEquinoxData,
                                      call.solarYear).val THEN 366 ELSE 365)
          THEN call.ret.null
          ELSE /\ ~call.ret.null
               /\ call.ret.t = anchorOf(call.solarYear).t
                                 + (call.solarDayOfYear - 1) * HoursPerDay
  /\ (vlCall.op = "getGregorianDateForSolarDay"
        /\ Has(vlVernalEquinoxData, vlCall.solarYear))
       => IF vlCall.solarDay < 1
             \/ vlCall.solarDay >
                  (IF vl_isSolarLeapYear(vlVernalEquinoxData, vlCall.solarYear)
                   THEN 366 ELSE 365)
          THEN vlCall.ret.null
          ELSE /\ ~vlCall.ret.null
               /\ vlCall.ret.t = ParseISODate(vlVernalEquinoxData[vlCall.solarYear])
                                   + (vlCall.solarDay - 1) * HoursPerDay

\* the calendar date after date c
nextCalendarDay(c) ==
  IF c.day < daysInGregorianMonth(c.year, c.month)
  THEN [year |-> c.year, month |-> c.month, day |-> c.day + 1]
  ELSE IF c.month < 12 THEN [year |-> c.year, month |-> c.month + 1, day |-> 1]
  ELSE [year |-> c.year + 1, month |-> 1, day |-> 1]
\* getGregorianDateForSolarDay for the day after the one just converted
dateOfNextDay ==
  getGregorianDateForSolarDay(solarYearStartDateCache, vernalEquinoxData,
                              call.solarYear, call.solarDayOfYear + 1).val

\* C11: monotonicity: for a fixed year Y, when d and d + 1 are both valid
\* the Date of d + 1 is later than the Date of d, exactly one day later,
\* and it is the next calendar date, across Gregorian month and year ends
\* as well.
C11_NextDayIsNextDate ==
  (call.op = "getGregorianDateForSolarDay" /\ ~call.ret.null /\ ~dateOfNextDay.null)
    => /\ dateOfNextDay.t > call.ret.t
       /\ dateOfNextDay.t = call.ret.t + HoursPerDay
       /\ CivilFromDays(utcDay(dateOfNextDay.t))
            = nextCalendarDay(CivilFromDays(utcDay(call.ret.t)))

\* C11 witness: a solar day has been converted to a December 31 and the
\* next solar day of the same year is valid.
C11_Witness ==
  /\ call.op = "getGregorianDateForSolarDay"
  /\ ~call.ret.null
  /\ ~dateOfNextDay.null
  /\ getUTCMonth(call.ret.t) = 11
  /\ getUTCDate(call.ret.t) = 31

\* C12: every result of getSolarDateFromGregorian other than null is
\* either a special day ('Year Day' or 'Leap Day', monthIndex -1,
\* monthNumber null) or a regular day (specialDay null, monthIndex 0..12,
\* day 1..28, monthNumber = monthIndex + 1), never a mix of the two.
C12_SpecialOrRegular ==
  (call.op = "getSolarDateFromGregorian"
     /\ call.ret.kind \notin {"null", "RangeError"})
    => \/ /\ call.ret.specialDay \in {"Year Day", "Leap Day"}
          /\ call.ret.monthIndex = -1
          /\ call.ret.monthNumber = JSNull
       \/ /\ call.ret.specialDay = JSNull
          /\ call.ret.monthIndex \in 0..12
          /\ call.ret.day \in 1..28
          /\ call.ret.monthNumber = call.ret.monthIndex + 1
          /\ call.ret.monthName = calendarStructure[call.ret.monthIndex + 1].name

\* C12 witness: a date has been converted to the Year Day of its solar year.
C12_Witness ==
  /\ call.op = "getSolarDateFromGregorian"
  /\ call.ret.kind = "special"
  /\ call.ret.specialDay = "Year Day"

\* C13: the conversions do not depend on the host's UTC offset: for the
\* UTC-midnight Date returned by getGregorianDateForSolarDay,
\* getSolarDateFromGregorian returns what it returns on a host at UTC, and
\* formatGregorianMonthTitle, which converts the UTC-midnight first and last
\* day of the month, returns the title it returns on a host at UTC.
C13_UtcOffsetIndependent ==
  /\ isConvertBack
       => call.ret = getSolarDateFromGregorian(solarYearStartDateCache,
                        vernalEquinoxData, call.gregorianDate, 0, 1).val
  /\ call.op = "formatGregorianMonthTitle"
       => call.ret = formatGregorianMonthTitle(solarYearStartDateCache,
                        vernalEquinoxData, call.gregorianMonthIndex,
                        call.gregorianYear, 0).val

\* C15: with the table loaded the formatters do not throw:
\* formatGregorianMonthTitle(m, Y) returns a {main, sub} pair for m in 0..11
\* and Y in 1900..2100, formatSolarMonthTitle(i, Y) for i in 0..12, and an
\* index outside those ranges gives main 'Invalid Month'.
C15_FormattersDoNotThrow ==
  /\ (call.op = "formatGregorianMonthTitle" /\ loadState = "done")
       => IF call.gregorianMonthIndex \in 0..11
          THEN call.gregorianYear \in FirstCacheYear..LastCacheYear
                 => call.ret.kind = "title"
          ELSE call.ret.kind = "title" /\ call.ret.main = "Invalid Month"
  /\ (call.op = "formatSolarMonthTitle" /\ loadState = "done")
       => IF call.monthIndex \in 0..12
          THEN call.ret.kind = "title" /\ call.ret.main # "Invalid Month"
          ELSE call.ret.kind = "title" /\ call.ret.main = "Invalid Month"

\* C15 witness: with the table loaded, formatGregorianMonthTitle has
\* returned the title of a Gregorian month of 1900..2100 that spans two
\* solar months.
C15_Witness ==
  /\ call.op = "formatGregorianMonthTitle"
  /\ loadState = "done"
  /\ call.gregorianMonthIndex \in 0..11
  /\ call.gregorianYear \in FirstCacheYear..LastCacheYear
  /\ call.ret.kind = "title"
  /\ call.ret.sub = "Month(s) 13-1/13"

\* C14: loadVernalEquinoxData always completes; when the fetch fails, on
\* completion the table has a March 19 or March 20 entry for every year
\* 1899..2101 and the anchor cache a start date for every year 1900..2100.
C14_LoadAlwaysCompletes ==
  /\ (loadState = "pending") ~> (loadState = "done")
  /\ [][LoadFail =>
          /\ \A y \in DataYears :
               /\ Has(vernalEquinoxData', y)
               /\ vernalEquinoxData'[y][1] = y
               /\ vernalEquinoxData'[y][2] = 3
               /\ vernalEquinoxData'[y][3] \in {19, 20}
          /\ \A y \in FirstCacheYear..LastCacheYear :
               Has(solarYearStartDateCache', y)]_vars

\* C14 witness: a load has completed through the fallback: the table holds
\* the March 19 of 2100 and the cache the anchor of 2100.
C14_Witness ==
  /\ loadState = "done"
  /\ Has(vernalEquinoxData, LastDataYear)
  /\ vernalEquinoxData[LastCacheYear] = <<LastCacheYear, 3, 19>>
  /\ Has(solarYearStartDateCache, LastCacheYear)

\* C16: an answer of isSolarLeapYear given by the Gregorian fallback rule
\* (the anchor of the year or of the next year is missing) carries a
\* degraded-accuracy flag: it is not the bare boolean that an answer
\* derived from anchor data is; and a result of getSolarDateFromGregorian
\* that relied on such an answer has a flag field.
C16_FallbackIsFlagged ==
  /\ (call.op = "isSolarLeapYear"
        /\ (~resolves(call.solarYear) \/ ~resolves(call.solarYear + 1)))
       => call.ret \notin BOOLEAN
  /\ (call.op = "getSolarDateFromGregorian"
        /\ call.ret.kind \in {"regular", "special"}
        /\ ~resolves(call.ret.year + 1))
       => "degraded" \in DOMAIN call.ret

\* the month lengths of a variable-layout year in the current table
vlDays(Y, i) == vl_getDaysInSolarMonth(vlVernalEquinoxData, Y, i)
vlLeap(Y) == vl_isSolarLeapYear(vlVernalEquinoxData, Y)
RECURSIVE vlDaysBefore(_, _)
vlDaysBefore(Y, i) == IF i <= 0 THEN 0 ELSE vlDaysBefore(Y, i - 1) + vlDays(Y, i - 1)

\* C17: variable layout: the month lengths of a year sum to 365, or to 366
\* in a leap year with the extra day in month 12 only; and for a day number
\* n within the year _getSolarMonthDayFromDayNumber returns the month i and
\* day k with 1 <= k <= length of i and (days before i) + k = n, so day 366
\* of a leap year is day 30 of month 12.
C17_MonthLengthsAndDayNumber ==
  /\ vlCall.op = "getDaysInSolarMonth"
       => /\ vlDaysBefore(vlCall.solarYear, 12)
               = (IF vlLeap(vlCall.solarYear) THEN 366 ELSE 365)
          /\ \A i \in 0..10 : vlDays(vlCall.solarYear, i) = solarMonths[i + 1].days
          /\ vlDays(vlCall.solarYear, 11)
               = (IF vlLeap(vlCall.solarYear) THEN 30 ELSE 29)
          /\ vlCall.monthIndex \in 0..11
               => vlCall.ret = vlDays(vlCall.solarYear, vlCall.monthIndex)
  /\ (vlCall.op = "_getSolarMonthDayFromDayNumber"
        /\ vlCall.dayNumber \in 1..vlDaysBefore(vlCall.solarYear, 12))
       => /\ vlCall.ret.kind = "regular"
          /\ vlCall.ret.year = vlCall.solarYear
          /\ vlCall.ret.monthIndex \in 0..11
          /\ vlCall.ret.day >= 1
          /\ vlCall.ret.day <= vlDays(vlCall.solarYear, vlCall.ret.monthIndex)
          /\ vlDaysBefore(vlCall.solarYear, vlCall.ret.monthIndex) + vlCall.ret.day
               = vlCall.dayNumber
          /\ (vlCall.dayNumber = 366
                => vlCall.ret.monthIndex = 11 /\ vlCall.ret.day = 30)

\* C17 witness: day 366 of a leap year has been resolved to day 30 of
\* month 12.
C17_Witness ==
  /\ vlCall.op = "_getSolarMonthDayFromDayNumber"
  /\ vlLeap(vlCall.solarYear)
  /\ vlCall.dayNumber = 366
  /\ vlCall.ret.kind = "regular"
  /\ vlCall.ret.monthIndex = 11
  /\ vlCall.ret.day = 30

\* whole days between the equinox dates of Y and Y + 1 in the
\* variable-layout table
vlEquinoxGap(Y) ==
  (ParseISODate(vlVernalEquinoxData[Y + 1]) - ParseISODate(vlVernalEquinoxData[Y]))
    \div HoursPerDay

\* C18: variable layout with its fallback table: for every year Y in
\* 1899..2100 the equinox dates of Y and Y + 1 are 365 or 366 days apart,
\* 366 exactly when isSolarLeapYear(Y) is true.
C18_FallbackYearLengths ==
  (vlLoadState = "done" /\ vlVernalEquinoxData = useFallbackEquinoxData(EmptyObject))
    => \A Y \in FirstDataYear..(LastDataYear - 1) :
         /\ vlEquinoxGap(Y) \in {365, 366}
         /\ vlLeap(Y) <=> (vlEquinoxGap(Y) = 366)

\* whole days between the equinox dates of Y and Y + 1 in the built-in table
rvEquinoxGap(Y) ==
  DaysFromCivil(Y + 1, 3, rv_vernalEquinoxData[Y + 1][3])
    - DaysFromCivil(Y, 3, rv_vernalEquinoxData[Y][3])

\* C19: README variant: when the equinox dates of Y and Y + 1 are 366 days
\* apart, getSolarDateFromGregorian maps the day before the equinox of
\* Y + 1, the 366th day of solar year Y, to month 12 (Esfand) day 30; it
\* does not return null.
C19_LeapDayIsEsfand30 ==
  rvCall.op = "getSolarDateFromGregorian"
    => \A Y \in rv_FirstYear..(rv_LastYear - 1) :
         (rvEquinoxGap(Y) = 366
            /\ localDay(rvCall.gregorianDate)
                  = DaysFromCivil(Y + 1, 3, rv_vernalEquinoxData[Y + 1][3]) - 1)
           => /\ rvCall.ret.kind = "regular"
              /\ rvCall.ret.year = Y
              /\ rvCall.ret.monthIndex = 11
              /\ rvCall.ret.persianName = "Esfand"
              /\ rvCall.ret.day = 30

\* C20: Gregorian page: every Gregorian date that getSolarDate maps to
\* day 1 of one of the 13 months is a Monday, in leap years as well as in
\* non-leap years.
C20_MonthsStartOnMonday ==
  (pgCall.op = "getSolarDate" /\ pgCall.ret.kind = "regular"
     /\ pgCall.ret.day = 1
     /\ \E i \in DOMAIN customMonths : pgCall.ret.month = customMonths[i])
    => getDay(pgCall.date, utcOffset) = 1

\* C21: Gregorian page: getSolarDate labels a date 'Equinox Day' exactly
\* when the date is the one getSpringEquinox returns for the date's
\* Gregorian year.
C21_EquinoxDayIsEquinox ==
  pgCall.op = "getSolarDate"
    => ((pgCall.ret.month = "Equinox Day")
          <=> (pgCall.date
                 = pg_getSpringEquinox(getFullYear(pgCall.date, utcOffset),
                                       utcOffset)))

\* C30: Gregorian page: getSolarDate returns 'Equinox Day', 'Solstice Day',
\* or one of the 13 defined month names with a day in 1..28; the month
\* index never reaches 13, so the month is never undefined.
C30_MonthIsDefined ==
  pgCall.op = "getSolarDate"
    => \/ pgCall.ret.kind = "special"
          /\ pgCall.ret.month \in {"Equinox Day", "Solstice Day"}
       \/ pgCall.ret.kind = "regular"
          /\ \E i \in 1..Len(customMonths) : pgCall.ret.month = customMonths[i]
          /\ pgCall.ret.day \in 1..28

\* C23: anchor cache of the fixed-28 class. getSolarYearStartDate(Y) without
\* a table entry for Y returns null and leaves the cache unchanged; with an
\* entry the anchor is stored under Y and returned; and a cache entry, once
\* set, keeps its value through every later call (the conversions add days
\* to a copy of the cached Date).
C23_CacheEntriesAreStable ==
  [][/\ \/ solarYearStartDateCache' = solarYearStartDateCache
        \/ \A Y \in DOMAIN solarYearStartDateCache :
             /\ Has(solarYearStartDateCache', Y)
             /\ solarYearStartDateCache'[Y] = solarYearStartDateCache[Y]
     /\ (call = NoCall /\ call'.op = "getSolarYearStartDate")
          => IF Has(vernalEquinoxData, call'.solarYear)
             THEN /\ Has(solarYearStartDateCache', call'.solarYear)
                  /\ call'.ret
                       = SomeDate(solarYearStartDateCache'[call'.solarYear])
                  /\ DOMAIN solarYearStartDateCache'
                       = DOMAIN solarYearStartDateCache \cup {call'.solarYear}
             ELSE /\ call'.ret = NullDate
                  /\ solarYearStartDateCache' = solarYearStartDateCache]_vars

\* a conversion returned a date later than the cached anchor it started from
C23_Witness ==
  /\ call.op = "getGregorianDateForSolarDay"
  /\ ~call.ret.null
  /\ Has(solarYearStartDateCache, call.solarYear)
  /\ call.ret.t > solarYearStartDateCache[call.solarYear]

\* C24: every anchor is a Monday, so consecutive anchors are a multiple of 7
\* days apart; hence, for a year whose anchor and next anchor both resolve,
\* isSolarLeapYear answers false, getGregorianDateForSolarDay rejects day
\* 366, and getSolarDateFromGregorian never answers 'Leap Day'.
C24_NoLeapBetweenMondays ==
  /\ (call.op = "isSolarLeapYear" /\ resolves(call.solarYear)
        /\ resolves(call.solarYear + 1))
       => /\ getUTCDay(anchorOf(call.solarYear).t) = 1
          /\ getUTCDay(anchorOf(call.solarYear + 1).t) = 1
          /\ anchorGap(call.solarYear) % 7 = 0
          /\ call.ret = FALSE
  /\ (call.op = "getGregorianDateForSolarDay" /\ resolves(call.solarYear)
        /\ resolves(call.solarYear + 1) /\ call.solarDayOfYear = 366)
       => call.ret = NullDate
  /\ (call.op = "getSolarDateFromGregorian" /\ call.ret.kind = "special"
        /\ resolves(call.ret.year) /\ resolves(call.ret.year + 1))
       => call.ret.specialDay # "Leap Day"

\* isSolarLeapYear has answered for a Gregorian leap year whose anchors both
\* resolve
C24_Witness ==
  /\ call.op = "isSolarLeapYear"
  /\ resolves(call.solarYear) /\ resolves(call.solarYear + 1)
  /\ isGregorianLeap(call.solarYear)
  /\ call.ret = FALSE

\* C25: getGregorianDateForSolarDay is injective over valid inputs: no other
\* pair (year, day) yields the date just returned; in particular day 365
\* of year Y is not the date of day 1 of year Y + 1.
C25_ForwardInjective ==
  (call.op = "getGregorianDateForSolarDay" /\ ~call.ret.null)
    => \A Y \in {call.solarYear - 1, call.solarYear, call.solarYear + 1},
          d \in 1..366 :
         <<Y, d>> # <<call.solarYear, call.solarDayOfYear>>
           => getGregorianDateForSolarDay(solarYearStartDateCache,
                vernalEquinoxData, Y, d).val # call.ret

\* the day number of a result of getSolarDateFromGregorian
dayNumberOf(r) ==
  IF r.kind = "regular" THEN 28 * r.monthIndex + r.day
  ELSE IF r.specialDay = "Year Day" THEN 365 ELSE 366

\* C26: reverse round trip: when getSolarDateFromGregorian(D) returns a
\* result r, getGregorianDateForSolarDay(r.year, n) is the date D, n being
\* 28 * r.monthIndex + r.day for a regular day, 365 for Year Day and 366 for
\* Leap Day.  The two Dates are the same date when they show the same
\* calendar day, read both in UTC or both in local time.
C26_ReverseRoundTrip ==
  (call.op = "getSolarDateFromGregorian"
     /\ call.ret.kind \in {"regular", "special"})
    => LET back == getGregorianDateForSolarDay(solarYearStartDateCache,
                     vernalEquinoxData, call.ret.year,
                     dayNumberOf(call.ret)).val
       IN  /\ ~back.null
           /\ \/ utcDay(back.t) = utcDay(call.gregorianDate)
              \/ localDay(back.t) = localDay(call.gregorianDate)

\* C27: cache coherence: after any sequence of load completions, a second
\* load included, interleaved with conversions, every cached start date of
\* a year Y is the first Monday on or after the equinox the table now holds
\* for Y.
C27_CacheFollowsTable ==
  \A Y \in DOMAIN solarYearStartDateCache :
    /\ Has(vernalEquinoxData, Y)
    /\ solarYearStartDateCache[Y]
         = getSolarYearStartDate(EmptyObject, vernalEquinoxData, Y).val.t

\* C28: whenever the equinox table has an entry for the year,
\* getAstronomicalEvents(year).vernalEquinox is that entry's date, whatever
\* the order of the calls: a call made while the load is pending does not
\* leave the approximate March 20 cached and returned after the load.
C28_EquinoxEventFollowsTable ==
  (call.op = "getAstronomicalEvents" /\ Has(vernalEquinoxData, call.year))
    => call.ret.vernalEquinox = ParseISODate(vernalEquinoxData[call.year])

\* C29: the two pages agree: for a date that buildCalendar of the solar page
\* puts in a month cell (month name, day 1..28), getSolarDate of the
\* Gregorian page returns that month name and day, in leap years as in
\* other years.
C29_PagesAgree ==
  (spCall.op = "buildCalendar" /\ pgCall.op = "getSolarDate")
    => /\ pgCall.ret.kind = "regular"
       /\ pgCall.ret.month = spCall.cell.monthName
       /\ pgCall.ret.day = spCall.cell.customDay

\* C22: PHP endpoint: for a well-formed input date on or after the earliest
\* equinox of the table, convertToCustomCalendar returns a record with Year,
\* Month and Day, the Month one of the 13 month names or 'Equinox Day'; it
\* returns no error string and does not fail on a missing previous equinox.
C22_RecordForEveryDate ==
  (phpCall.op = "convertToCustomCalendar"
     /\ DaysFromCivil(phpCall.gregorianDateStr[1], phpCall.gregorianDateStr[2],
                      phpCall.gregorianDateStr[3])
          >= php_formatYmd(php_createFromFormat(
               EquinoxFile(phpCall.equinoxDates)[FileFirstYear], 0)))
    => /\ phpCall.ret.kind = "record"
       /\ \/ phpCall.ret.Month = "Equinox Day"
          \/ \E i \in 1..Len(monthNames) : phpCall.ret.Month = monthNames[i]

====
